---- MODULE Spec2Model ----
(***************************************************************************)
(* Assembly Dereplicator (dereplicator.py): the run of main() and of the   *)
(* greedy closest-pair dereplication loop, as a state machine.             *)
(*                                                                         *)
(* Assemblies are file names; find_all_assemblies returns them sorted, so  *)
(* they are modelled as 1..N with the integer order standing for the       *)
(* string order.  Floats (Mash distances, --distance, a fraction) are      *)
(* counted in thirds: the integer k stands for k/3, so 0 is 0.0 and One is *)
(* 1.0.  An absent option (Python None) is the empty tuple and a supplied  *)
(* value v is <<v>>.  The N50 of a file is drawn when the file is first    *)
(* read, which is when the program learns it.                              *)
(***************************************************************************)
EXTENDS Integers, Sequences, FiniteSets

VARIABLES
    entry,               \* the function the caller invokes: "main" or "check_args"
    argv,                \* what the caller supplies: [distance, count, fraction]
    args,                \* the object check_args and dereplication read
    pc,                  \* position in main
    error,               \* the message of sys.exit / the uncaught exception, "" if none
    all_assemblies,      \* find_all_assemblies' result
    out_dir,             \* TRUE once os.makedirs(args.out_dir) has run
    mash_called,         \* TRUE once pairwise_mash_distances has been called
    mash,                \* the distances Mash reported (kept for reference)
    assemblies,          \* dereplication's live set
    discarded,           \* dereplication's discarded set
    pairwise_distances,  \* the list of (distance, a, b), closest pair last
    n50_cache,           \* get_assembly_n50's lru_cache: file name -> N50
    misses,              \* per file name, how often its N50 was computed from the file
    log,                 \* the discards printed so far, in order
    copied               \* the files copy_to_output_dir has copied

vars == <<entry, argv, args, pc, error, all_assemblies, out_dir, mash_called, mash,
          assemblies, discarded, pairwise_distances, n50_cache, misses, log, copied>>

(* ------------------------------- bounds -------------------------------- *)

MaxN == 3

MaxN50 == 1

(* ------------------------------ values --------------------------------- *)

None == <<>>

Some(v) == <<v>>

Val(x) == x[1]

Opt(S) == {None} \cup {Some(v) : v \in S}

\* the float 1.0 of check_args, in thirds
One == 3

\* the floats an option can carry, from below 0.0 to above 1.0
Floats == {-1, 0, 1, 2, One, One + 1}

\* the distances Mash reports: 0.0, 1/3, 2/3
MashDistances == {0, 1, 2}

Counts == -1 .. MaxN + 1

Qualities == 0 .. MaxN50

ArgvSet == [distance : Opt(Floats), count : Opt(Counts), fraction : Opt(Floats)]

(* --------------------------- get_arguments ----------------------------- *)

\* The parser knows --distance and --count (and settings that do not matter
\* here); any other option ends the run through parser.error.
get_arguments(a) ==
    IF a.fraction # None
    THEN [error |-> "unrecognized arguments: --fraction", args |-> None]
    ELSE [error |-> "", args |-> [distance |-> a.distance, count |-> a.count]]

(* ----------------------------- check_args ------------------------------ *)

\* check_args with the distance bounds written < 0.0 and > 1.0
check_args_closed_interval(a) ==
    IF a.distance = None /\ a.count = None
    THEN "Error: you must supply a value for either --distance or --count"
    ELSE IF a.distance # None /\ (Val(a.distance) < 0 \/ Val(a.distance) > One)
    THEN "Error: --distance must be greater than 0 and less than 1"
    ELSE IF a.count # None /\ Val(a.count) <= 0
    THEN "Error: --count must be greater than 0"
    ELSE ""

\* The message check_args exits with, "" when it returns normally.
check_args(a) ==
    IF a.distance = None /\ a.count = None
    THEN "Error: you must supply a value for either --distance or --count"
    ELSE IF a.distance # None /\ (Val(a.distance) <= 0 \/ Val(a.distance) >= One)
    THEN "Error: --distance must be greater than 0 and less than 1"
    ELSE IF a.count # None /\ Val(a.count) <= 0
    THEN "Error: --count must be greater than 0"
    ELSE ""

(* ----------------------- pairwise_mash_distances ----------------------- *)

Pairs(S) == {p \in S \X S : p[1] < p[2]}

RECURSIVE SortedSeq(_)
\* the members of a finite set of integers, ascending
SortedSeq(S) ==
    IF S = {} THEN <<>>
    ELSE LET m == CHOOSE x \in S : \A y \in S : x <= y
         IN  <<m>> \o SortedSeq(S \ {m})

Reverse(s) == [i \in 1 .. Len(s) |-> s[Len(s) + 1 - i]]

\* The lines of `mash dist sketch sketch` over the sketched assemblies S:
\* one line (assembly_1, assembly_2, distance) per ordered pair, self pairs
\* included.  d gives the distance of each unordered pair.
mash_dist_lines(S, d) ==
    LET s == SortedSeq(S)
        n == Len(s)
        line(k) ==
            LET a == s[((k - 1) \div n) + 1]
                b == s[((k - 1) % n) + 1]
            IN  <<a, b, IF a = b THEN 0 ELSE IF a < b THEN d[<<a, b>>] ELSE d[<<b, a>>]>>
    IN  [k \in 1 .. n * n |-> line(k)]

\* Python's order on the tuples (distance, assembly_1, assembly_2)
tuple_less(r, s) ==
    \/ r[1] < s[1]
    \/ r[1] = s[1] /\ r[2] < s[2]
    \/ r[1] = s[1] /\ r[2] = s[2] /\ r[3] < s[3]

RECURSIVE insert_by_distance(_, _)
\* insert_desc comparing the distances alone, as a sort with key=distance would
insert_by_distance(r, s) ==
    IF s = <<>> THEN <<r>>
    ELSE IF Head(s)[1] < r[1] THEN <<r>> \o s
    ELSE <<Head(s)>> \o insert_by_distance(r, Tail(s))

RECURSIVE insert_desc(_, _)
\* r put into the descending list s, behind the elements not smaller than it
insert_desc(r, s) ==
    IF s = <<>> THEN <<r>>
    ELSE IF tuple_less(Head(s), r) THEN <<r>> \o s
    ELSE <<Head(s)>> \o insert_desc(r, Tail(s))

RECURSIVE sorted_reverse(_)
\* sorted(distances, reverse=True): stable, largest first
sorted_reverse(s) ==
    IF s = <<>> THEN <<>>
    ELSE insert_desc(s[Len(s)], sorted_reverse(SubSeq(s, 1, Len(s) - 1)))

RECURSIVE parse_lines(_)
\* the loop over p.stdout: keep (distance, assembly_1, assembly_2) of the
\* lines with assembly_1 < assembly_2
parse_lines(lines) ==
    IF lines = <<>> THEN <<>>
    ELSE LET parts == Head(lines)
         IN  (IF parts[1] < parts[2] THEN <<<<parts[3], parts[1], parts[2]>>>> ELSE <<>>)
             \o parse_lines(Tail(lines))

\* pairwise_mash_distances sorting without reverse=True
pairwise_mash_distances_ascending(lines) == Reverse(sorted_reverse(parse_lines(lines)))

pairwise_mash_distances(lines) == sorted_reverse(parse_lines(lines))

(* ------------------------------- stop ---------------------------------- *)

\* stop with the distance test written > instead of >=
stop_distance_gt(count, distance, live, pd) ==
    IF Cardinality(live) = 1 THEN "True"
    ELSE IF distance = None /\ Cardinality(live) <= Val(count) THEN "True"
    ELSE IF count = None
    THEN IF pd = <<>> THEN "IndexError"
         ELSE IF pd[Len(pd)][1] > Val(distance) THEN "True" ELSE "False"
    ELSE IF distance # None /\ Cardinality(live) <= Val(count)
    THEN IF pd = <<>> THEN "IndexError"
         ELSE IF pd[Len(pd)][1] > Val(distance) THEN "True" ELSE "False"
    ELSE "False"

\* stop with the count test written < instead of <=
stop_count_lt(count, distance, live, pd) ==
    IF Cardinality(live) = 1 THEN "True"
    ELSE IF distance = None /\ Cardinality(live) < Val(count) THEN "True"
    ELSE IF count = None
    THEN IF pd = <<>> THEN "IndexError"
         ELSE IF pd[Len(pd)][1] >= Val(distance) THEN "True" ELSE "False"
    ELSE IF distance # None /\ Cardinality(live) < Val(count)
    THEN IF pd = <<>> THEN "IndexError"
         ELSE IF pd[Len(pd)][1] >= Val(distance) THEN "True" ELSE "False"
    ELSE "False"

\* stop with the two targets joined by or instead of and
stop_either(count, distance, live, pd) ==
    IF Cardinality(live) = 1 THEN "True"
    ELSE IF distance = None /\ Cardinality(live) <= Val(count) THEN "True"
    ELSE IF count = None
    THEN IF pd = <<>> THEN "IndexError"
         ELSE IF pd[Len(pd)][1] >= Val(distance) THEN "True" ELSE "False"
    ELSE IF distance # None /\ Cardinality(live) <= Val(count) THEN "True"
    ELSE IF distance # None
    THEN IF pd = <<>> THEN "IndexError"
         ELSE IF pd[Len(pd)][1] >= Val(distance) THEN "True" ELSE "False"
    ELSE "False"

\* stop with the count test one off: len(assemblies) - 1 <= args.count
stop_count_off_by_one(count, distance, live, pd) ==
    IF Cardinality(live) = 1 THEN "True"
    ELSE IF distance = None /\ Cardinality(live) - 1 <= Val(count) THEN "True"
    ELSE IF count = None
    THEN IF pd = <<>> THEN "IndexError"
         ELSE IF pd[Len(pd)][1] >= Val(distance) THEN "True" ELSE "False"
    ELSE IF distance # None /\ Cardinality(live) - 1 <= Val(count)
    THEN IF pd = <<>> THEN "IndexError"
         ELSE IF pd[Len(pd)][1] >= Val(distance) THEN "True" ELSE "False"
    ELSE "False"

\* "True", "False", or "IndexError" when pairwise_distances[-1] is read on an
\* empty list.
stop(count, distance, live, pd) ==
    IF Cardinality(live) = 1 THEN "True"
    ELSE IF distance = None /\ Cardinality(live) <= Val(count) THEN "True"
    ELSE IF count = None
    THEN IF pd = <<>> THEN "IndexError"
         ELSE IF pd[Len(pd)][1] >= Val(distance) THEN "True" ELSE "False"
    ELSE IF distance # None /\ Cardinality(live) <= Val(count)
    THEN IF pd = <<>> THEN "IndexError"
         ELSE IF pd[Len(pd)][1] >= Val(distance) THEN "True" ELSE "False"
    ELSE "False"

(* ------------------------- dereplication loop -------------------------- *)

\* line 109 with > for >=: a tie discards a
choose_discard_tie_a(a, b, q) == IF q[a] > q[b] THEN b ELSE a

\* line 109 with the branches swapped: the higher N50 is discarded
choose_discard_swapped(a, b, q) == IF q[a] >= q[b] THEN a ELSE b

\* line 109 with <= for >=
choose_discard_le(a, b, q) == IF q[a] <= q[b] THEN b ELSE a

\* line 109: discard = b if n50_a >= n50_b else a
choose_discard(a, b, q) == IF q[a] >= q[b] THEN b ELSE a

\* the loop body without line 111, discarded.add(discard)
loop_body_no_add(s, q) ==
    LET rec == s.pairwise_distances[Len(s.pairwise_distances)]
        a == rec[2]
        b == rec[3]
        rest == SubSeq(s.pairwise_distances, 1, Len(s.pairwise_distances) - 1)
    IN  IF a \in s.discarded \/ b \in s.discarded
        THEN [s EXCEPT !.pairwise_distances = rest]
        ELSE LET discard == choose_discard(a, b, q)
             IN  [assemblies |-> s.assemblies \ {discard},
                  discarded |-> s.discarded,
                  pairwise_distances |-> rest,
                  log |-> Append(s.log, discard)]

\* the loop body popping a second record after the one it read
loop_body_double_pop(s, q) ==
    LET rec == s.pairwise_distances[Len(s.pairwise_distances)]
        a == rec[2]
        b == rec[3]
        rest == SubSeq(s.pairwise_distances, 1, Len(s.pairwise_distances) - 2)
    IN  IF a \in s.discarded \/ b \in s.discarded
        THEN [s EXCEPT !.pairwise_distances = rest]
        ELSE LET discard == choose_discard(a, b, q)
             IN  [assemblies |-> s.assemblies \ {discard},
                  discarded |-> s.discarded \cup {discard},
                  pairwise_distances |-> rest,
                  log |-> Append(s.log, discard)]

\* the loop body with the test of lines 106-107 ahead of the pop of line 105
loop_body_skip_before_pop(s, q) ==
    LET rec == s.pairwise_distances[Len(s.pairwise_distances)]
        a == rec[2]
        b == rec[3]
        rest == SubSeq(s.pairwise_distances, 1, Len(s.pairwise_distances) - 1)
    IN  IF a \in s.discarded \/ b \in s.discarded
        THEN s
        ELSE LET discard == choose_discard(a, b, q)
             IN  [assemblies |-> s.assemblies \ {discard},
                  discarded |-> s.discarded \cup {discard},
                  pairwise_distances |-> rest,
                  log |-> Append(s.log, discard)]

\* One pass of the loop body, lines 104-111, on the loop's data
\* s = [assemblies, discarded, pairwise_distances, log].
loop_body(s, q) ==
    LET rec == s.pairwise_distances[Len(s.pairwise_distances)]
        a == rec[2]
        b == rec[3]
        rest == SubSeq(s.pairwise_distances, 1, Len(s.pairwise_distances) - 1)
    IN  IF a \in s.discarded \/ b \in s.discarded
        THEN [s EXCEPT !.pairwise_distances = rest]
        ELSE LET discard == choose_discard(a, b, q)
             IN  [assemblies |-> s.assemblies \ {discard},
                  discarded |-> s.discarded \cup {discard},
                  pairwise_distances |-> rest,
                  log |-> Append(s.log, discard)]

\* The data the loop works on, as loop_body takes it.
loop_state ==
    [assemblies |-> assemblies, discarded |-> discarded,
     pairwise_distances |-> pairwise_distances, log |-> log]

(* ------------------------------ the run -------------------------------- *)

Init ==
    /\ entry \in {"main", "check_args"}
    /\ argv \in ArgvSet
    \* a direct call of check_args passes the argument object itself
    /\ args = IF entry = "check_args" THEN argv ELSE None
    /\ pc = IF entry = "check_args" THEN "parsed" ELSE "start"
    /\ error = ""
    /\ all_assemblies = {}
    /\ out_dir = FALSE
    /\ mash_called = FALSE
    /\ mash = None
    /\ assemblies = {}
    /\ discarded = {}
    /\ pairwise_distances = <<>>
    /\ n50_cache = <<>>
    /\ misses = <<>>
    /\ log = <<>>
    /\ copied = {}

\* main, line 72
GetArguments ==
    /\ pc = "start"
    /\ LET r == get_arguments(argv)
       IN  /\ error' = r.error
           /\ args' = r.args
           /\ pc' = IF r.error # "" THEN "exit" ELSE "parsed"
    /\ UNCHANGED <<entry, argv, all_assemblies, out_dir, mash_called, mash,
                   assemblies, discarded, pairwise_distances, n50_cache, misses, log, copied>>

\* main, line 73, or the direct call
CheckArgs ==
    /\ pc = "parsed"
    /\ error' = check_args(args)
    /\ pc' = IF error' # "" THEN "exit"
             ELSE IF entry = "check_args" THEN "returned" ELSE "checked"
    /\ UNCHANGED <<entry, argv, args, all_assemblies, out_dir, mash_called, mash,
                   assemblies, discarded, pairwise_distances, n50_cache, misses, log, copied>>

\* main with os.makedirs moved ahead of find_all_assemblies
FindAllAssemblies_after_makedirs ==
    /\ pc = "checked"
    /\ out_dir' = TRUE
    /\ \E N \in 0 .. MaxN :
         IF N = 0
         THEN /\ error' = "Error: no assemblies found"
              /\ pc' = "exit"
              /\ UNCHANGED <<all_assemblies, misses>>
         ELSE /\ all_assemblies' = 1 .. N
              /\ misses' = [a \in 1 .. N |-> 0]
              /\ pc' = "found"
              /\ error' = error
    /\ UNCHANGED <<entry, argv, args, mash_called, mash, assemblies, discarded,
                   pairwise_distances, n50_cache, log, copied>>

\* main, lines 74-75: the input directory holds N assembly files
FindAllAssemblies ==
    /\ pc = "checked"
    /\ \E N \in 0 .. MaxN :
         IF N = 0
         THEN /\ error' = "Error: no assemblies found"
              /\ pc' = "exit"
              /\ UNCHANGED <<all_assemblies, misses>>
         ELSE /\ all_assemblies' = 1 .. N
              /\ misses' = [a \in 1 .. N |-> 0]
              /\ pc' = "found"
              /\ error' = error
    /\ UNCHANGED <<entry, argv, args, out_dir, mash_called, mash, assemblies, discarded,
                   pairwise_distances, n50_cache, log, copied>>

\* main, line 76
MakeOutDir ==
    /\ pc = "found"
    /\ out_dir' = TRUE
    /\ pc' = "made"
    /\ UNCHANGED <<entry, argv, args, error, all_assemblies, mash_called, mash,
                   assemblies, discarded, pairwise_distances, n50_cache, misses, log, copied>>

\* dereplication, lines 100-102, Mash exiting with a non-zero return code
MashFails ==
    /\ pc = "made"
    /\ assemblies' = all_assemblies
    /\ discarded' = {}
    /\ mash_called' = TRUE
    /\ error' = "Error: mash dist did not complete successfully"
    /\ pc' = "exit"
    /\ UNCHANGED <<entry, argv, args, all_assemblies, out_dir, mash,
                   pairwise_distances, n50_cache, misses, log, copied>>

\* dereplication, lines 100-102: Mash sketches the assemblies S (all of them,
\* unless it skips files it cannot sketch), reports the distances d and
\* writes its lines in one order or the other
StartDereplication ==
    /\ pc = "made"
    /\ assemblies' = all_assemblies
    /\ discarded' = {}
    /\ mash_called' = TRUE
    /\ \E S \in SUBSET all_assemblies :
         \E d \in [Pairs(S) -> MashDistances] :
           \E lines \in {mash_dist_lines(S, d), Reverse(mash_dist_lines(S, d))} :
             /\ mash' = [sketched |-> S, distance |-> d]
             /\ pairwise_distances' = pairwise_mash_distances(lines)
    /\ pc' = "loop"
    /\ UNCHANGED <<entry, argv, args, error, all_assemblies, out_dir,
                   n50_cache, misses, log, copied>>

\* line 108 moved ahead of the test of lines 106-107
n50_requests_before_skip(s) ==
    LET rec == s.pairwise_distances[Len(s.pairwise_distances)]
    IN  {rec[2], rec[3]}

\* the files line 108 asks get_assembly_n50 for: none when the record is skipped
n50_requests(s) ==
    LET rec == s.pairwise_distances[Len(s.pairwise_distances)]
    IN  IF rec[2] \in s.discarded \/ rec[3] \in s.discarded THEN {} ELSE {rec[2], rec[3]}

\* get_assembly_n50 without the lru_cache decorator: every request reads the file
cache_misses_uncached(c, asked) == asked

\* the requests lru_cache passes on to the function body: those not in the cache
cache_misses(c, asked) == asked \ DOMAIN c

\* get_assembly_n50 under lru_cache, for the files asked: a file not in the
\* cache is read (its N50 is read[f]) and entered, a cached one is not read
get_assembly_n50(c, asked, read) ==
    [f \in DOMAIN c \cup asked |-> IF f \in DOMAIN c THEN c[f] ELSE read[f]]

\* dereplication, lines 103-122: stop says no, one pass of the body
LoopIterate ==
    /\ pc = "loop"
    /\ stop(args.count, args.distance, assemblies, pairwise_distances) = "False"
    /\ pairwise_distances # <<>>
    /\ LET asked == n50_requests(loop_state)
       IN  \E read \in [cache_misses(n50_cache, asked) -> Qualities] :
             LET c == get_assembly_n50(n50_cache, asked, read)
                 t == loop_body(loop_state, c)
             IN  /\ assemblies' = t.assemblies
                 /\ discarded' = t.discarded
                 /\ pairwise_distances' = t.pairwise_distances
                 /\ log' = t.log
                 /\ n50_cache' = c
                 /\ misses' = [a \in DOMAIN misses |->
                                 IF a \in DOMAIN read THEN misses[a] + 1 ELSE misses[a]]
    /\ UNCHANGED <<entry, argv, args, pc, error, all_assemblies, out_dir,
                   mash_called, mash, copied>>

\* dereplication, lines 103-104 and 141-145: pairwise_distances[-1] on an
\* empty list, in stop or in the body
LoopIndexError ==
    /\ pc = "loop"
    /\ LET r == stop(args.count, args.distance, assemblies, pairwise_distances)
       IN  r = "IndexError" \/ (r = "False" /\ pairwise_distances = <<>>)
    /\ error' = "IndexError: list index out of range"
    /\ pc' = "exit"
    /\ UNCHANGED <<entry, argv, args, all_assemblies, out_dir, mash_called, mash,
                   assemblies, discarded, pairwise_distances, n50_cache, misses, log, copied>>

\* dereplication, lines 103 and 123: stop says yes, the live set is returned
LoopStop ==
    /\ pc = "loop"
    /\ stop(args.count, args.distance, assemblies, pairwise_distances) = "True"
    /\ pc' = "dereplicated"
    /\ UNCHANGED <<entry, argv, args, error, all_assemblies, out_dir, mash_called,
                   mash, assemblies, discarded, pairwise_distances, n50_cache, misses, log,
                   copied>>

\* main, line 78
CopyToOutputDir ==
    /\ pc = "dereplicated"
    /\ copied' = assemblies
    /\ pc' = "done"
    /\ UNCHANGED <<entry, argv, args, error, all_assemblies, out_dir, mash_called,
                   mash, assemblies, discarded, pairwise_distances, n50_cache, misses, log>>

Next ==
    \/ GetArguments
    \/ CheckArgs
    \/ FindAllAssemblies
    \/ MakeOutDir
    \/ MashFails
    \/ StartDereplication
    \/ LoopIterate
    \/ LoopIndexError
    \/ LoopStop
    \/ CopyToOutputDir

Spec == Init /\ [][Next]_vars

(* ------------------- dereplication as a whole run ---------------------- *)

RECURSIVE dereplication_loop(_, _, _, _)
\* The while loop of lines 103-123 run to its end on the loop data s with
\* the N50s q: the live set returned, or {} when the loop dies on an empty
\* list.
dereplication_loop(count, distance, s, q) ==
    LET r == stop(count, distance, s.assemblies, s.pairwise_distances)
    IN  IF r = "True" THEN s.assemblies
        ELSE IF r = "IndexError" \/ s.pairwise_distances = <<>> THEN {}
        ELSE dereplication_loop(count, distance, loop_body(s, q), q)

RECURSIVE dereplication_discards(_, _, _, _)
\* The while loop of lines 103-123 run to its end on the loop data s with
\* the N50s q: the assemblies it discarded (line 111), in order.
dereplication_discards(count, distance, s, q) ==
    LET r == stop(count, distance, s.assemblies, s.pairwise_distances)
    IN  IF r = "True" THEN s.log
        ELSE IF r = "IndexError" \/ s.pairwise_distances = <<>> THEN s.log
        ELSE dereplication_discards(count, distance, loop_body(s, q), q)

\* dereplication(all_assemblies, args) when Mash reports the distances d
dereplication(all, count, distance, d, q) ==
    dereplication_loop(count, distance,
                       [assemblies |-> all, discarded |-> {},
                        pairwise_distances |-> pairwise_mash_distances(mash_dist_lines(all, d)),
                        log |-> <<>>],
                       q)

\* the run, every step that can be taken being taken: the interpreter does
\* not pause for ever between two statements
FairSpec == Spec /\ WF_vars(Next)

(* ======================== properties of the run ======================== *)

\* the dereplication loop has been entered and has not died
InLoop == pc \in {"loop", "dereplicated", "done"}

Returned == pc \in {"dereplicated", "done"}

\* Mash delivered a record for every unordered pair of input assemblies
Complete == mash # None /\ mash.sketched = all_assemblies

DistanceOnly == args.distance # None /\ args.count = None

CountOnly == args.distance = None /\ args.count # None

Both == args.distance # None /\ args.count # None

\* the distance Mash reported for the pair {a, b}
Dist(a, b) == IF a < b THEN mash.distance[<<a, b>>] ELSE mash.distance[<<b, a>>]

\* the record the loop reads next, pairwise_distances[-1]
Closest == pairwise_distances[Len(pairwise_distances)]

Min(x, y) == IF x <= y THEN x ELSE y

\* no two live assemblies are closer than D, or one assembly is left
Closed(D) ==
    \/ Cardinality(assemblies) = 1
    \/ \A p \in Pairs(assemblies) : Dist(p[1], p[2]) >= D

\* C1: with only a distance floor D, over a complete distance set, the loop
\* never stops while two live assemblies are closer than D and more than one
\* is left, the live set no longer changes once no live pair is closer than D
\* (so what is returned is the live set of the first such point), no assembly
\* is discarded on a record of distance >= D, and a floor at or below every
\* distance returns all assemblies.
C1_DistanceFloorClosure ==
    /\ [](InLoop /\ Complete /\ DistanceOnly /\ Returned
            => /\ Closed(Val(args.distance))
               /\ (\A p \in Pairs(all_assemblies) : Dist(p[1], p[2]) >= Val(args.distance))
                     => assemblies = all_assemblies)
    /\ [][pc = "loop" /\ Complete /\ DistanceOnly
            => /\ pc' = "dereplicated" => Closed(Val(args.distance))
               /\ Closed(Val(args.distance)) => assemblies' = assemblies
               /\ assemblies' # assemblies => Closest[1] < Val(args.distance)
               /\ pc' # "exit"]_vars

C1_Witness ==
    /\ pc = "done" /\ Complete /\ DistanceOnly
    /\ Cardinality(assemblies) >= 2
    /\ Len(log) >= 1
    \* a record was skipped because an endpoint had been discarded
    /\ Len(pairwise_distances) + Len(log) < Cardinality(Pairs(all_assemblies))

\* C2: with only a count ceiling c >= 1, over a complete distance set, the
\* run returns (it does not die in the loop) exactly min(N, c) assemblies,
\* and with c >= N nothing is discarded.
C2_CountCeiling ==
    (pc \in {"dereplicated", "done", "exit"} /\ args # None /\ mash # None
        /\ Complete /\ CountOnly)
    => /\ pc # "exit"
       /\ Cardinality(assemblies) = Min(Cardinality(all_assemblies), Val(args.count))
       /\ Val(args.count) >= Cardinality(all_assemblies)
            => assemblies = all_assemblies /\ log = <<>> /\ discarded = {}

C2_Witness ==
    /\ pc = "done" /\ Complete /\ CountOnly
    /\ Val(args.count) = 2
    /\ Cardinality(all_assemblies) = 3
    /\ Cardinality(copied) = 2

\* C3: with a distance floor D and a count ceiling c both set and more than
\* one assembly live, the loop stops exactly when the live count is <= c and
\* the closest remaining record has distance >= D; so what is returned has at
\* most c assemblies and no two survivors closer than D, or is one assembly.
C3_AndSemantics ==
    /\ [](InLoop /\ Complete /\ Both /\ Returned
            => /\ Cardinality(assemblies) <= Val(args.count)
               /\ Closed(Val(args.distance)))
    /\ [][pc = "loop" /\ Complete /\ Both /\ Cardinality(assemblies) > 1
            => /\ pairwise_distances # <<>>
               /\ (pc' = "dereplicated")
                    <=> (/\ Cardinality(assemblies) <= Val(args.count)
                         /\ Closest[1] >= Val(args.distance))]_vars

\* with two of three assemblies live the count was met and the distance was
\* not: the loop went on to a single survivor
C3_Witness ==
    /\ pc = "done" /\ Complete /\ Both
    /\ Val(args.count) = 2
    /\ Cardinality(all_assemblies) = 3
    /\ Cardinality(assemblies) = 1
    /\ \E p \in Pairs(all_assemblies) : Dist(p[1], p[2]) >= Val(args.distance)

\* the quality the run has read for a file
Quality(a) == n50_cache[a]

\* ceil(f * N) for the fraction f = k thirds
CeilFraction(k, N) == (k * N + One - 1) \div One

\* C4: a retention fraction f in (0,1] acts as the count ceiling
\* ceil(f * N): a run of main given --fraction f and no distance returns
\* min(c, ceil(f * N)) assemblies (ceil(f * N) when no count c is given).
C4_FractionIsCountCeiling ==
    (/\ entry = "main" /\ pc \in {"exit", "done"}
     /\ argv.fraction # None /\ Val(argv.fraction) > 0 /\ Val(argv.fraction) <= One
     /\ argv.distance = None
     /\ argv.count # None => Val(argv.count) >= 1)
    => /\ pc = "done"
       /\ LET ceiling == CeilFraction(Val(argv.fraction), Cardinality(all_assemblies))
          IN  Cardinality(copied) =
                IF argv.count = None THEN ceiling ELSE Min(Val(argv.count), ceiling)

\* C5: a pass of the loop body whose record (d, a, b) has both endpoints
\* live discards exactly one of them: the one of strictly lower N50, and b
\* when the two N50s are equal.
C5_DiscardLowerQuality ==
    [][(pc = "loop" /\ pairwise_distances' # pairwise_distances
          /\ Closest[2] \in assemblies /\ Closest[3] \in assemblies)
       => LET a == Closest[2]
              b == Closest[3]
              lower == IF n50_cache'[a] < n50_cache'[b] THEN a ELSE b
          IN  /\ assemblies' = assemblies \ {lower}
              /\ discarded' = discarded \cup {lower}
              /\ Cardinality(assemblies') = Cardinality(assemblies) - 1]_vars

\* one discard on a tie (the larger name went) and one on a strict difference
\* where the first endpoint went
C5_Witness ==
    /\ InLoop
    /\ \E x \in discarded, y \in assemblies :
         y \in DOMAIN n50_cache /\ Quality(x) = Quality(y) /\ y < x
    /\ \E x \in discarded, y \in assemblies :
         y \in DOMAIN n50_cache /\ Quality(x) < Quality(y) /\ x < y

\* the records (distance, a, b) of the distances Mash reported, as a set:
\* what the run is given, whatever the order of Mash's lines
mash_records == {<<mash.distance[p], p[1], p[2]>> : p \in DOMAIN mash.distance}

\* C6: the run is a function of the assembly set, the distance values, the
\* N50s and the policy.  Whatever the order Mash wrote its lines in, the list
\* the loop consumes is the one list of the reported records in strictly
\* descending order, the records consumed so far being the smallest ones; and
\* each pass of the loop changes the live set, the discarded set, the list and
\* the sequence of discards to what the body computes from them and from the
\* N50s, where an N50 once read never changes.
C6_Deterministic ==
    /\ [](InLoop =>
            LET pd == pairwise_distances
                consumed == mash_records \ {pd[i] : i \in 1 .. Len(pd)}
            IN  /\ \A i \in 1 .. Len(pd) : pd[i] \in mash_records
                /\ \A i \in 1 .. Len(pd) - 1 : tuple_less(pd[i + 1], pd[i])
                /\ \A r \in consumed : \A i \in 1 .. Len(pd) : tuple_less(r, pd[i])
                /\ Len(pd) + Cardinality(consumed) = Cardinality(mash_records))
    /\ [][(pc = "loop" /\ pc' = "loop")
            => /\ loop_state' = loop_body(loop_state, n50_cache')
               /\ \A f \in DOMAIN n50_cache :
                    f \in DOMAIN n50_cache' /\ n50_cache'[f] = n50_cache[f]]_vars

\* two pairs at the same distance, both consumed, with discards made
C6_Witness ==
    /\ pc = "done" /\ Complete
    /\ Cardinality(all_assemblies) = 3
    /\ Len(log) = 2
    /\ \E p, r \in Pairs(all_assemblies) : p # r /\ Dist(p[1], p[2]) = Dist(r[1], r[2])

\* C7: in every state of the loop some live assembly has an N50 at least
\* that of every discarded one, and when the run ends with a single survivor
\* out of two or more assemblies, every assembly's N50 has been read and none
\* exceeds the survivor's.
C7_SurvivorHasMaxQuality ==
    InLoop =>
      /\ \A x \in discarded :
           \E y \in assemblies : y \in DOMAIN n50_cache /\ Quality(y) >= Quality(x)
      /\ (Returned /\ Cardinality(assemblies) = 1 /\ Cardinality(all_assemblies) >= 2)
           => /\ DOMAIN n50_cache = all_assemblies
              /\ \A y \in assemblies, x \in all_assemblies : Quality(x) <= Quality(y)

\* a single survivor that is not the first file, with N50s that differ
C7_Witness ==
    /\ pc = "done"
    /\ Cardinality(all_assemblies) = 3
    /\ assemblies = {3}
    /\ Quality(1) < Quality(3)

\* C8 as stated: some input (assemblies, complete distances, N50s) makes
\* the count = 1 run leave an assembly of N50 strictly below the maximum.
C8_SurvivorBelowMaximum ==
    (pc = "loop" /\ CountOnly /\ Val(args.count) = 1)
    => \E N \in 1 .. MaxN :
         \E d \in [Pairs(1 .. N) -> MashDistances], q \in [1 .. N -> Qualities] :
           \E x \in dereplication(1 .. N, Some(1), None, d, q) :
             \E y \in 1 .. N : q[x] < q[y]

\* C8, amended: with count = 1, over a complete distance set, exactly one
\* assembly is returned and no assembly of the input has an N50 above the
\* survivor's.
C8_CountOneKeepsMaximum ==
    (Returned /\ Complete /\ CountOnly /\ Val(args.count) = 1)
    => /\ Cardinality(assemblies) = 1
       /\ \A x \in all_assemblies \cap DOMAIN n50_cache :
            \A y \in assemblies : y \in DOMAIN n50_cache /\ Quality(x) <= Quality(y)

\* count = 1 over three assemblies leaves the second, whose N50 is the maximum
C8_Witness ==
    /\ pc = "done" /\ Complete /\ CountOnly /\ Val(args.count) = 1
    /\ Cardinality(all_assemblies) = 3
    /\ copied = {2}
    /\ Quality(1) < Quality(2)
    /\ Len(log) = 2

CheckArgsErrors ==
    {"Error: you must supply a value for either --distance or --count",
     "Error: --distance must be greater than 0 and less than 1",
     "Error: --count must be greater than 0"}

\* check_args has run on args
CheckArgsRan == args # None /\ pc \notin {"start", "parsed"}

CheckArgsRejected == CheckArgsRan /\ pc = "exit" /\ error \in CheckArgsErrors

CheckArgsAccepted == CheckArgsRan /\ ~CheckArgsRejected

\* the fraction the argument object carries, None when it has no such field
FractionOf(a) == IF "fraction" \in DOMAIN a THEN a.fraction ELSE None

\* C9: check_args exits with an error when no constraint is supplied, when
\* the distance is <= 0 or >= 1, or when the count is <= 0; it returns for a
\* distance strictly between 0 and 1 alone and for a positive count alone.
C9_CheckArgs ==
    CheckArgsRan =>
      /\ (args.distance = None /\ args.count = None /\ FractionOf(args) = None)
           => CheckArgsRejected
      /\ (args.distance # None /\ (Val(args.distance) <= 0 \/ Val(args.distance) >= One))
           => CheckArgsRejected
      /\ (args.count # None /\ Val(args.count) <= 0) => CheckArgsRejected
      /\ (/\ args.distance # None /\ Val(args.distance) > 0 /\ Val(args.distance) < One
          /\ args.count = None /\ FractionOf(args) = None)
           => CheckArgsAccepted
      /\ (/\ args.count # None /\ Val(args.count) > 0
          /\ args.distance = None /\ FractionOf(args) = None)
           => CheckArgsAccepted

C9_Witness ==
    /\ entry = "check_args" /\ pc = "returned"
    /\ args.distance # None /\ args.count = None /\ args.fraction = None

\* C10: check_args accepts an argument object with only a fraction in (0,1]
\* set, and rejects a fraction outside (0,1] whatever else is set.
C10_FractionIsAConstraint ==
    (CheckArgsRan /\ FractionOf(args) # None) =>
      /\ (/\ Val(args.fraction) > 0 /\ Val(args.fraction) <= One
          /\ args.distance = None /\ args.count = None)
           => CheckArgsAccepted
      /\ (Val(args.fraction) <= 0 \/ Val(args.fraction) > One) => CheckArgsRejected

\* dereplication has been called (main is past line 76)
DereplicationCalled == pc \in {"loop", "dereplicated", "done"} \/ (pc = "exit" /\ mash_called)

\* C11: when the input holds exactly one assembly, dereplication returns it
\* without running Mash, without computing an N50 and without discarding.
C11_SingleMemberNoWork ==
    (Cardinality(all_assemblies) = 1 /\ DereplicationCalled)
      => /\ ~mash_called
         /\ pc # "exit"
         /\ DOMAIN n50_cache = {}
         /\ discarded = {} /\ log = <<>>
         /\ Returned => assemblies = all_assemblies

\* the faults main meets before dereplication: a rejected command line, a
\* rejected argument object, an input directory without assemblies
EarlyFaults ==
    CheckArgsErrors \cup {"unrecognized arguments: --fraction", "Error: no assemblies found"}

\* C12: when main ends on a rejected configuration or on an empty input
\* directory, Mash was never run, nothing was discarded, the output directory
\* was not created and no file was copied.
C12_FaultsLeaveNoOutput ==
    (entry = "main" /\ pc = "exit" /\ error \in EarlyFaults)
      => /\ ~mash_called
         /\ mash = None /\ pairwise_distances = <<>>
         /\ assemblies = {} /\ discarded = {} /\ log = <<>>
         /\ DOMAIN n50_cache = {}
         /\ ~out_dir
         /\ copied = {}

C12_Witness ==
    /\ entry = "main" /\ pc = "exit"
    /\ error = "Error: no assemblies found"
    /\ args # None /\ check_args(args) = ""

\* C13: when Mash fails, or delivers distances that miss a pair of input
\* assemblies, the run ends with an error: nothing is discarded, and no live
\* set is returned or copied.
C13_IncompleteDistancesAreFatal ==
    (mash_called /\ ~Complete)
      => /\ discarded = {} /\ log = <<>>
         /\ ~Returned
         /\ copied = {}

\* how many records the loop has popped so far
Consumed == Cardinality(mash_records) - Len(pairwise_distances)

\* C14: once dereplication runs, the live set and the discarded set are
\* disjoint and together are the input set; a pass of the loop leaves both
\* unchanged or moves exactly one assembly from the live set to the discarded
\* set; no step takes an assembly out of the discarded set.
C14_LivePartition ==
    /\ [](DereplicationCalled
            => /\ assemblies \cap discarded = {}
               /\ assemblies \cup discarded = all_assemblies)
    /\ [][pc = "loop"
            => \/ UNCHANGED <<assemblies, discarded>>
               \/ \E x \in assemblies : /\ assemblies' = assemblies \ {x}
                                        /\ discarded' = discarded \cup {x}]_vars
    /\ [][discarded \subseteq discarded' /\ assemblies' \cap discarded = {}]_vars

\* a run with two discards and a record skipped in between
C14_Witness ==
    /\ pc = "done" /\ Complete
    /\ Cardinality(discarded) = 2
    /\ Consumed > Len(log)

\* C15: over a complete distance set, a pass that discards does so on a
\* record whose two assemblies are both live, one of which is the discard,
\* and no two live assemblies are closer than that record's distance.
C15_DiscardIsClosestLivePair ==
    [][(pc = "loop" /\ Complete /\ pairwise_distances # <<>> /\ assemblies' # assemblies)
         => LET a == Closest[2]
                b == Closest[3]
            IN  /\ a \in assemblies /\ b \in assemblies /\ a # b
                /\ assemblies \ assemblies' \subseteq {a, b}
                /\ Closest[1] = Dist(a, b)
                /\ \A p \in Pairs(assemblies) : Dist(p[1], p[2]) >= Closest[1]]_vars

\* three assemblies at three different distances, dereplicated down to one
C15_Witness ==
    /\ pc = "done" /\ Complete
    /\ Cardinality(all_assemblies) = 3
    /\ Len(log) = 2
    /\ \A p, r \in Pairs(all_assemblies) : p # r => Dist(p[1], p[2]) # Dist(r[1], r[2])

\* C16: a pass that pops a record with a discarded assembly in it removes
\* that record from the list and changes nothing else: not the live set, not
\* the discarded set, not the N50 cache (no file is read), and the loop goes
\* on to the next call of stop.
C16_StaleRecordIsSkipped ==
    [][(/\ pc = "loop" /\ pairwise_distances # <<>>
        /\ pairwise_distances' # pairwise_distances
        /\ (Closest[2] \in discarded \/ Closest[3] \in discarded))
         => /\ pairwise_distances'
                 = SubSeq(pairwise_distances, 1, Len(pairwise_distances) - 1)
            /\ pc' = "loop"
            /\ UNCHANGED <<assemblies, discarded, log, n50_cache, misses, error, copied,
                           all_assemblies, args, mash, mash_called, out_dir>>]_vars

\* a record was skipped while an assembly of the input is still unread
C16_Witness ==
    /\ pc = "loop" /\ Complete
    /\ Consumed > Len(log)
    /\ all_assemblies \ DOMAIN n50_cache # {}

\* C17: in one run the N50 of an assembly is computed from its file at most
\* once, exactly when it enters the cache; from then on the cache holds that
\* value unchanged and the file is not read again.
C17_N50ComputedOnce ==
    /\ [](\A a \in DOMAIN misses :
            /\ misses[a] <= 1
            /\ misses[a] = 1 <=> a \in DOMAIN n50_cache)
    /\ [][\A f \in DOMAIN n50_cache :
            /\ f \in DOMAIN n50_cache' /\ n50_cache'[f] = n50_cache[f]
            /\ misses'[f] = misses[f]]_vars

\* two comparisons among three assemblies: one of them was asked for twice
C17_Witness ==
    /\ InLoop
    /\ Cardinality(all_assemblies) = 3
    /\ Len(log) = 2
    /\ \A a \in DOMAIN n50_cache : misses[a] = 1

\* the records still in the list, as a set
Unconsumed == {pairwise_distances[i] : i \in 1 .. Len(pairwise_distances)}

\* C18: over a complete distance set, the record of every pair of live
\* assemblies is still in the list, so the list is empty only when one
\* assembly is live, and the run never dies reading pairwise_distances[-1].
C18_QueueCoversLivePairs ==
    (DereplicationCalled /\ Complete)
      => /\ \A p \in Pairs(assemblies) : <<Dist(p[1], p[2]), p[1], p[2]>> \in Unconsumed
         /\ Cardinality(assemblies) >= 2 => pairwise_distances # <<>>
         /\ pairwise_distances = <<>> => Cardinality(assemblies) = 1
         /\ pc # "exit"

\* two live assemblies and their record the only one left, under a distance floor
C18_Witness ==
    /\ pc = "loop" /\ Complete /\ args.distance # None
    /\ Cardinality(assemblies) = 2
    /\ Len(pairwise_distances) = 1
    /\ Consumed = 2

\* C19: stop, called under a policy with a distance floor when no record is
\* left, returns a boolean: it takes the distance floor as met, so it says
\* yes unless a count ceiling is set and more assemblies than that are live.
C19_StopOnEmptyQueue ==
    (pc = "loop" /\ args.distance # None /\ pairwise_distances = <<>>)
      => LET r == stop(args.count, args.distance, assemblies, pairwise_distances)
         IN  /\ r \in {"True", "False"}
             /\ r = "True" <=> \/ Cardinality(assemblies) = 1
                               \/ args.count = None
                               \/ Cardinality(assemblies) <= Val(args.count)

\* C20: over a complete distance set the loop comes to its return: a pass
\* that does not stop removes exactly the last record of the list and leaves
\* the others as they were, the list never holds more records than there are
\* pairs of input assemblies, the run does not die in the loop, and every run
\* that enters the loop leaves it with the live set returned.
C20_LoopTerminates ==
    /\ [][(pc = "loop" /\ Complete)
            => \/ pc' = "dereplicated" /\ UNCHANGED pairwise_distances
               \/ /\ pc' = "loop"
                  /\ pairwise_distances # <<>>
                  /\ pairwise_distances'
                       = SubSeq(pairwise_distances, 1, Len(pairwise_distances) - 1)]_vars
    /\ []((InLoop /\ Complete)
            => /\ Len(pairwise_distances) <= Cardinality(Pairs(all_assemblies))
               /\ Consumed >= Len(log))
    /\ (pc = "loop" /\ Complete) ~> Returned

\* a returned run that went through as many passes as there are records
C20_Witness ==
    /\ Returned /\ Complete
    /\ Cardinality(all_assemblies) = 3
    /\ pairwise_distances = <<>>
    /\ Consumed = 3

IsPrefix(s, t) == Len(s) <= Len(t) /\ SubSeq(t, 1, Len(s)) = s

\* the assignments of an N50 to every input assembly that agree with the
\* N50s read so far
N50Assignments ==
    {[a \in all_assemblies |-> IF a \in DOMAIN n50_cache THEN n50_cache[a] ELSE r[a]] :
       r \in [all_assemblies \ DOMAIN n50_cache -> Qualities]}

\* the loop's data on entry, for the distances Mash reported
EntryState ==
    [assemblies |-> all_assemblies, discarded |-> {},
     pairwise_distances |-> pairwise_mash_distances(mash_dist_lines(all_assemblies, mash.distance)),
     log |-> <<>>]

\* the distance floors check_args accepts that are not above D
FloorsUpTo(D) == {x \in Floats : x > 0 /\ x < One /\ x <= D}

\* C21: over a complete distance set, the discards of a returned run, under
\* whatever policy, are the first discards of the run with count = 1 on the
\* same assemblies, distances and N50s; the survivors for count k are among
\* those for count k + 1, and the survivors for a distance floor are among
\* those for every lower floor.
C21_DiscardsArePrefix ==
    []((pc = "dereplicated" /\ Complete)
         => LET s0 == EntryState
            IN  \A q \in N50Assignments :
                  /\ IsPrefix(log, dereplication_discards(Some(1), None, s0, q))
                  /\ CountOnly
                       => assemblies \subseteq
                            dereplication_loop(Some(Val(args.count) + 1), None, s0, q)
                  /\ DistanceOnly
                       => \A D1 \in FloorsUpTo(Val(args.distance)) :
                            assemblies \subseteq dereplication_loop(None, Some(D1), s0, q))

\* a run under a distance floor that stopped after one discard out of three
\* assemblies, where the run with count = 1 makes two
C21_Witness ==
    /\ pc = "dereplicated" /\ Complete /\ DistanceOnly
    /\ Cardinality(all_assemblies) = 3
    /\ Len(log) = 1
    /\ pairwise_distances # <<>>

====
